---- MODULE Spec2Model ----
(***************************************************************************)
(* ts-simple-crud: the users table (db/database.ts), the persistence       *)
(* service (models/UserService.ts), the /api/users routes (the router at   *)
(* public/app.js:199-301) and the process bootstrap (app.ts).              *)
(*                                                                         *)
(* Four specifications over the same variables:                            *)
(*                                                                         *)
(*   BootSpec  the process from its start: startServer, connectDb, and the *)
(*             requests clients send meanwhile.  db.exec's outcome is      *)
(*             SQLite's parse of the CREATE TABLE statement as it is       *)
(*             written at database.ts:12-19 (SchemaAccepted): the id       *)
(*             column reads PROMARU KEY AUTOINCREMENT, SQLite rejects the  *)
(*             statement, connectDb rejects and startServer exits.         *)
(*                                                                         *)
(*   Spec      the routes and the service over an opened store that holds  *)
(*             the users table, every store call one atomic step.  Its     *)
(*             initial state is the one app.listen is called in; it is     *)
(*             not a state BootSpec reaches.  The table is the one the     *)
(*             statement is documented to create (README.md:159-166):      *)
(*             email UNIQUE, created_at defaulting to the store's clock,   *)
(*             id the AUTOINCREMENT alias of the rowid.                    *)
(*                                                                         *)
(*   FaultSpec Spec, and the users table being dropped under the running   *)
(*             server (DropTable): every later statement fails.            *)
(*                                                                         *)
(*   ClientSpec the browser client (public/app.js:1-198) over the list     *)
(*             and create routes, from Spec's initial state.               *)
(*                                                                         *)
(* The router imports deleteUser, which UserService.ts holds commented     *)
(* out: the call throws (deleteUser).                                      *)
(***************************************************************************)
EXTENDS Integers, Sequences, FiniteSets, Bags, TLC

\* ---------------------------------------------------------------- bounds
MaxId == 2          \* rows ever inserted into users
MaxTime == 1        \* CURRENT_TIMESTAMP takes the values 0..MaxTime
MaxInflight == 2    \* PUT handlers that may stand between write and re-read

\* ---------------------------------------------------------------- values
Undefined == "<undefined>"
Names == {"Ann", "Bob"}
Emails == {"a@x", "b@x", "c@x"}
\* req.body: every {name, email} of texts, and the bodies with a name or an email
\* that is the empty text or missing
Bodies ==
    [name : Names, email : Emails]
        \cup [name : {"", Undefined}, email : {"a@x"}]
        \cup [name : {"Ann"}, email : {"", Undefined}]
        \cup {[name |-> Undefined, email |-> Undefined]}
\* parseInt(req.params.id); 0 stands for every value no row has (0, NaN, ...)
IdParams == 0..MaxId

VARIABLES
    pc,         \* startServer: "start", "open", "exec", "resolved", "rejected", "listening", "exited"
    db,         \* database.ts `let db`: TRUE once assigned
    table,      \* database.sqlite holds a table users
    listening,  \* app.listen has been called
    users,      \* the rows of users: [id, name, email, created_at]
    seq,        \* sqlite_sequence of users: the largest rowid ever assigned
    now,        \* the store's clock (CURRENT_TIMESTAMP)
    put,        \* the bag of PUTs standing between their write and their re-read: [id, name, email]
    out,        \* the response on its way to the client: [op, id, name, email, status, body]
    usersList   \* the browser page's #users-list: the elements it holds

vars == <<pc, db, table, listening, users, seq, now, put, out, usersList>>

\* ---------------------------------------------------------------- errors
\* An Error's message, cut into the pieces the routes look for
UniqueFailed == <<"SQLITE_CONSTRAINT:", "UNIQUE constraint failed", ": users.email">>
NoSuchTable == <<"SQLITE_ERROR:", "no such table", ": users">>
NotInitialized == <<"Database no initialized. Call connectDb first.">>
NotAFunction == <<"TypeError:", "deleteUser is not a function">>
NoError == <<>>

\* String.prototype.includes on a message
Includes(msg, part) == \E i \in 1..Len(msg) : msg[i] = part

\* ---------------------------------------------------------------- the schema
\* CREATE TABLE IF NOT EXISTS users ( ... ): the column definitions as written
IdColumn == <<"id", "INTEGER", "PROMARU", "KEY", "AUTOINCREMENT">>
NameColumn == <<"name", "TEXT", "NOT", "NULL">>
EmailColumn == <<"email", "TEXT", "UNIQUE", "NOT", "NULL">>
CreatedAtColumn == <<"created_at", "DATETIME", "DEFAULT", "CURRENT_TIMESTAMP">>
SchemaColumns == {IdColumn, NameColumn, EmailColumn, CreatedAtColumn}

\* SQLite's column-def: a name, a type name (any run of identifiers; KEY counts as
\* one), then column constraints.  AUTOINCREMENT is a keyword that may only follow
\* PRIMARY KEY.
ConstraintWords == {"PRIMARY", "NOT", "NULL", "UNIQUE", "DEFAULT", "CHECK", "COLLATE",
                    "REFERENCES", "CONSTRAINT", "AUTOINCREMENT"}

RECURSIVE SkipTypeName(_)
SkipTypeName(toks) ==
    IF toks = <<>> \/ Head(toks) \in ConstraintWords
    THEN toks
    ELSE SkipTypeName(Tail(toks))

RECURSIVE ConstraintsParse(_)
ConstraintsParse(toks) ==
    IF toks = <<>> THEN TRUE
    ELSE IF Head(toks) = "PRIMARY"
    THEN /\ Len(toks) >= 2
         /\ toks[2] = "KEY"
         /\ IF Len(toks) >= 3 /\ toks[3] = "AUTOINCREMENT"
            THEN ConstraintsParse(SubSeq(toks, 4, Len(toks)))
            ELSE ConstraintsParse(SubSeq(toks, 3, Len(toks)))
    ELSE IF Head(toks) = "NOT"
    THEN /\ Len(toks) >= 2
         /\ toks[2] = "NULL"
         /\ ConstraintsParse(SubSeq(toks, 3, Len(toks)))
    ELSE IF Head(toks) = "UNIQUE"
    THEN ConstraintsParse(Tail(toks))
    ELSE IF Head(toks) = "DEFAULT"
    THEN /\ Len(toks) >= 2
         /\ ConstraintsParse(SubSeq(toks, 3, Len(toks)))
    ELSE FALSE

ColumnParses(col) == ConstraintsParse(SkipTypeName(Tail(col)))

\* db.exec of the statement resolves: SQLite parses every column definition
SchemaAccepted == \A col \in SchemaColumns : ColumnParses(col)

\* ---------------------------------------------------------------- the store
\* (mutant) the column declared without UNIQUE
NoUniqueViolation(email, id) == FALSE

\* (mutant) the constraint counts the updated row itself
UniqueViolationAnyRow(email, id) == \E r \in users : r.email = email

\* email TEXT UNIQUE: a row other than `id` already holds `email`
UniqueViolation(email, id) == \E r \in users : r.email = email /\ r.id # id

\* (mutant) the last rowid is handed out again
NewRowidReused == IF seq = 0 THEN 1 ELSE seq

\* id INTEGER PRIMARY KEY AUTOINCREMENT: the rowid a new row gets
NewRowid == seq + 1

\* created_at DATETIME DEFAULT CURRENT_TIMESTAMP
DefaultCreatedAt == now

\* INSERT INTO users (name, email) VALUES (?, ?)
SqlInsert(name, email) ==
    IF ~table
    THEN [err |-> NoSuchTable, rows |-> users, seq |-> seq, lastID |-> 0]
    ELSE IF UniqueViolation(email, 0)
    THEN [err |-> UniqueFailed, rows |-> users, seq |-> seq, lastID |-> 0]
    ELSE [err |-> NoError,
          rows |-> users \cup {[id |-> NewRowid, name |-> name, email |-> email,
                                created_at |-> DefaultCreatedAt]},
          seq |-> NewRowid,
          lastID |-> NewRowid]

\* (mutant) the row is replaced, and its created_at defaults anew
SqlReplace(id, name, email) ==
    IF ~table
    THEN [err |-> NoSuchTable, rows |-> users]
    ELSE IF (\E r \in users : r.id = id) /\ UniqueViolation(email, id)
    THEN [err |-> UniqueFailed, rows |-> users]
    ELSE [err |-> NoError,
          rows |-> {IF r.id = id
                    THEN [r EXCEPT !.name = name, !.email = email,
                                   !.created_at = DefaultCreatedAt]
                    ELSE r : r \in users}]

\* (mutant) the constraint is checked although no row has the id
SqlUpdateChecksFirst(id, name, email) ==
    IF ~table
    THEN [err |-> NoSuchTable, rows |-> users]
    ELSE IF UniqueViolation(email, id)
    THEN [err |-> UniqueFailed, rows |-> users]
    ELSE [err |-> NoError,
          rows |-> {IF r.id = id THEN [r EXCEPT !.name = name, !.email = email] ELSE r
                    : r \in users}]

\* (mutant) UPDATE users SET name = ? WHERE id = ?
SqlUpdateNameOnly(id, name, email) ==
    IF ~table
    THEN [err |-> NoSuchTable, rows |-> users]
    ELSE IF (\E r \in users : r.id = id) /\ UniqueViolation(email, id)
    THEN [err |-> UniqueFailed, rows |-> users]
    ELSE [err |-> NoError,
          rows |-> {IF r.id = id THEN [r EXCEPT !.name = name] ELSE r : r \in users}]

\* UPDATE users SET name = ?, email = ? WHERE id = ?
SqlUpdate(id, name, email) ==
    IF ~table
    THEN [err |-> NoSuchTable, rows |-> users]
    ELSE IF (\E r \in users : r.id = id) /\ UniqueViolation(email, id)
    THEN [err |-> UniqueFailed, rows |-> users]
    ELSE [err |-> NoError,
          rows |-> {IF r.id = id THEN [r EXCEPT !.name = name, !.email = email] ELSE r
                    : r \in users}]

\* SELECT * FROM users WHERE id = ?  (db.get: the first row, or undefined: <<>>)
SqlGet(id) ==
    IF ~table
    THEN [err |-> NoSuchTable, val |-> <<>>]
    ELSE LET found == {r \in users : r.id = id}
         IN  [err |-> NoError,
              val |-> IF found = {} THEN <<>> ELSE <<CHOOSE r \in found : TRUE>>]

\* (mutant) ORDER BY created_at, without DESC
OrderedByCreatedAtAsc(rows) ==
    \A i, j \in 1..Len(rows) : i < j => rows[i].created_at <= rows[j].created_at

\* ORDER BY created_at DESC: the sequence `rows` is in that order
OrderedByCreatedAtDesc(rows) ==
    \A i, j \in 1..Len(rows) : i < j => rows[i].created_at >= rows[j].created_at

\* SELECT * FROM users ORDER BY created_at DESC: every order of all the rows that
\* the ORDER BY admits (rows of one second come in any order)
SqlAll ==
    {rows \in [1..Cardinality(users) -> users] :
        /\ \A i, j \in 1..Cardinality(users) : i # j => rows[i] # rows[j]
        /\ OrderedByCreatedAtDesc(rows)}

\* ---------------------------------------------------------------- the service
\* getDb(): throws when db is not assigned
getDb == IF db THEN NoError ELSE NotInitialized

\* getUserById(id)
getUserById(id) ==
    IF getDb # NoError THEN [err |-> getDb, val |-> <<>>] ELSE SqlGet(id)

\* (mutant) the id is not taken from the INSERT's result
NewUserWithoutId(lastID, name, email) == [id |-> 0, name |-> name, email |-> email]

\* { id: result.lastID, ...user }
NewUser(lastID, name, email) == [id |-> lastID, name |-> name, email |-> email]

\* createUser(user): the INSERT, then the record it returns
createUser(name, email) ==
    IF getDb # NoError
    THEN [err |-> getDb, rows |-> users, seq |-> seq, val |-> <<>>]
    ELSE LET result == SqlInsert(name, email)
         IN  [err |-> result.err, rows |-> result.rows, seq |-> result.seq,
              val |-> IF result.err = NoError
                      THEN <<NewUser(result.lastID, name, email)>>
                      ELSE <<>>]

\* updateUser(id, user), up to its first await: the UPDATE
updateUserRun(id, name, email) ==
    IF getDb # NoError THEN [err |-> getDb, rows |-> users] ELSE SqlUpdate(id, name, email)

\* deleteUser is imported by the router and exported by no module (UserService.ts
\* holds it commented out): the call throws a TypeError
deleteUser(id) == [err |-> NotAFunction, rows |-> users, val |-> FALSE]

\* ---------------------------------------------------------------- the routes
\* !userInput.name || !userInput.email
Falsy(v) == v \in {"", Undefined}
\* (mutant) the route looks at the name only
InvalidNameOnly(body) == Falsy(body.name)

Invalid(body) == Falsy(body.name) \/ Falsy(body.email)

\* (mutant) the route looks for another spelling of the message
IsDuplicateLowerCase(err) == Includes(err, "unique constraint failed")

\* (mutant) every error counts as a uniqueness violation
IsDuplicateAnyError(err) == err # NoError

\* error.message?.includes("UNIQUE constraint failed")
IsDuplicate(err) == Includes(err, "UNIQUE constraint failed")

Response(op, id, body, status, payload) ==
    [op |-> op, id |-> id, name |-> body.name, email |-> body.email,
     status |-> status, body |-> payload]
ErrorBody(text) == [error |-> text]
NoBody == [name |-> Undefined, email |-> Undefined]
NoResponse == Response("none", 0, NoBody, 0, <<>>)

\* a route runs when the server listens; the response of the step before has left
Serving == listening /\ out = NoResponse

\* router.get("/")
GetUsers ==
    /\ Serving
    /\ IF getDb # NoError \/ ~table
       THEN out' = Response("LIST", 0, NoBody, 500, ErrorBody("Failed to retrieve users"))
       ELSE \E rows \in SqlAll : out' = Response("LIST", 0, NoBody, 200, rows)
    /\ UNCHANGED <<pc, db, table, listening, users, seq, now, put, usersList>>

\* router.get("/:id")
GetUser ==
    /\ Serving
    /\ \E id \in IdParams :
          LET user == getUserById(id)
          IN  out' = IF user.err # NoError
                     THEN Response("GET", id, NoBody, 500, ErrorBody("Failed to retrieve user"))
                     ELSE IF user.val = <<>>
                     THEN Response("GET", id, NoBody, 404, ErrorBody("User not found"))
                     ELSE Response("GET", id, NoBody, 200, user.val[1])
    /\ UNCHANGED <<pc, db, table, listening, users, seq, now, put, usersList>>

\* router.post("/")
PostUser ==
    /\ Serving
    /\ \E userInput \in Bodies :
          LET newUser == createUser(userInput.name, userInput.email)
          IN  IF Invalid(userInput)
              THEN /\ out' = Response("POST", 0, userInput, 400,
                                      ErrorBody("Name and email are required"))
                   /\ UNCHANGED <<users, seq>>
              ELSE IF newUser.err = NoError
              THEN /\ seq < MaxId
                   /\ users' = newUser.rows
                   /\ seq' = newUser.seq
                   /\ out' = Response("POST", 0, userInput, 201, newUser.val[1])
              ELSE /\ out' = IF IsDuplicate(newUser.err)
                             THEN Response("POST", 0, userInput, 409,
                                           ErrorBody("Email already exists"))
                             ELSE Response("POST", 0, userInput, 500,
                                           ErrorBody("Failed to create user"))
                   /\ UNCHANGED <<users, seq>>
    /\ UNCHANGED <<pc, db, table, listening, now, put, usersList>>

\* router.put("/:id"), up to the first await of updateUser (the UPDATE)
PutUserRun ==
    /\ Serving
    /\ \E id \in IdParams, userInput \in Bodies :
          LET run == updateUserRun(id, userInput.name, userInput.email)
          IN  IF Invalid(userInput)
              THEN /\ out' = Response("PUT", id, userInput, 400,
                                      ErrorBody("Name and email are required"))
                   /\ UNCHANGED <<users, put>>
              ELSE IF run.err = NoError
              THEN /\ BagCardinality(put) < MaxInflight
                   /\ users' = run.rows
                   /\ put' = put (+) SetToBag({[id |-> id, name |-> userInput.name,
                                                email |-> userInput.email]})
                   /\ UNCHANGED out
              ELSE /\ out' = IF IsDuplicate(run.err)
                             THEN Response("PUT", id, userInput, 409,
                                           ErrorBody("Email already exists"))
                             ELSE Response("PUT", id, userInput, 500,
                                           ErrorBody("Failed to update user"))
                   /\ UNCHANGED <<users, put>>
    /\ UNCHANGED <<pc, db, table, listening, seq, now, usersList>>

\* router.put("/:id"), from `return await getUserById(id)` to the response
PutUserGet ==
    /\ out = NoResponse
    /\ \E q \in BagToSet(put) :
          LET user == getUserById(q.id)
          IN  /\ out' = IF user.err # NoError
                        THEN Response("PUT", q.id, q, 500, ErrorBody("Failed to update user"))
                        ELSE IF user.val = <<>>
                        THEN Response("PUT", q.id, q, 404, ErrorBody("User not found"))
                        ELSE Response("PUT", q.id, q, 200, user.val[1])
              /\ put' = put (-) SetToBag({q})
    /\ UNCHANGED <<pc, db, table, listening, users, seq, now, usersList>>

\* router.delete("/:id")
DeleteUser ==
    /\ Serving
    /\ \E id \in IdParams :
          LET success == deleteUser(id)
          IN  /\ users' = success.rows
              /\ out' = IF success.err # NoError
                        THEN Response("DELETE", id, NoBody, 500,
                                      ErrorBody("Failed to delete user"))
                        ELSE IF ~success.val
                        THEN Response("DELETE", id, NoBody, 404, ErrorBody("User not found"))
                        ELSE Response("DELETE", id, NoBody, 204, <<>>)
    /\ UNCHANGED <<pc, db, table, listening, seq, now, put, usersList>>

\* the response leaves for the client
Deliver ==
    /\ out # NoResponse
    /\ out' = NoResponse
    /\ UNCHANGED <<pc, db, table, listening, users, seq, now, put, usersList>>

\* the store's clock advances
Tick ==
    /\ out = NoResponse
    /\ now < MaxTime
    /\ now' = now + 1
    /\ UNCHANGED <<pc, db, table, listening, users, seq, put, out, usersList>>

\* ---------------------------------------------------------------- Spec
\* app.listen has been called over an opened, empty users table
Init ==
    /\ pc = "listening"
    /\ db = TRUE
    /\ table = TRUE
    /\ listening = TRUE
    /\ users = {}
    /\ seq = 0
    /\ now = 0
    /\ put = EmptyBag
    /\ out = NoResponse
    /\ usersList = <<>>

Next ==
    \/ GetUsers
    \/ GetUser
    \/ PostUser
    \/ PutUserRun
    \/ PutUserGet
    \/ DeleteUser
    \/ Deliver
    \/ Tick

Spec == Init /\ [][Next]_vars

\* ---------------------------------------------------------------- claims
\* the step is a route's response to `op`
Responds(op) == out = NoResponse /\ out'.op = op
ValidInput(r) == ~Falsy(r.name) /\ ~Falsy(r.email)
EmailStored(email) == \E r \in users : r.email = email
IdStored(id) == \E r \in users : r.id = id

\* C1: in every reachable state, after any sequence and interleaving of create,
\* update and delete requests, no two distinct user records have the same email.
C1_UniqueEmail ==
    \A r1, r2 \in users : r1 # r2 => r1.email # r2.email

\* two records are stored, an update of one of them stands between its write and
\* its re-read, and a request has just been turned down for its email
C1_Witness ==
    /\ Cardinality(users) = 2
    /\ put # EmptyBag
    /\ out.status = 409

C3_DuplicateCreate ==
    [][(Responds("POST") /\ ValidInput(out') /\ EmailStored(out'.email)) =>
          /\ out'.status = 409
          /\ out'.body = ErrorBody("Email already exists")
          /\ users' = users
          /\ seq' = seq
          /\ Cardinality({r \in users' : r.email = out'.email}) = 1]_vars

\* a create has been answered 409 while two records are stored
C3_Witness ==
    /\ out.op = "POST"
    /\ out.status = 409
    /\ Cardinality(users) = 2

\* the step is the UPDATE of a PUT with input q, which the route then re-reads
Updates(q) == put' = put (+) SetToBag({q})
\* the step is a PUT's response before any re-read: its UPDATE was turned down
TurnsDown == Responds("PUT") /\ put' = put
\* the step is a PUT's response after its re-read
Answers == Responds("PUT") /\ put' # put
Input(r) == [id |-> r.id, name |-> r.name, email |-> r.email]
Collides(q) == \E r \in users : r.email = q.email /\ r.id # q.id

\* C4: an update on an existing id with an email no other record uses sets that
\* record's name and email to the input values, leaves its id and created_at and
\* every other record unchanged, and answers 200 with the record as now stored.
C4_UpdateFrame ==
    /\ [][(TurnsDown /\ ValidInput(out') /\ IdStored(out'.id)) => Collides(Input(out'))]_vars
    /\ [][\A q \in BagToSet(put') : (Updates(q) /\ IdStored(q.id)) =>
             \E r \in users :
                /\ r.id = q.id
                /\ users' = (users \ {r}) \cup
                       {[id |-> r.id, name |-> q.name, email |-> q.email,
                         created_at |-> r.created_at]}]_vars
    /\ [][Answers =>
             /\ users' = users
             /\ IdStored(out'.id) =>
                   /\ out'.status = 200
                   /\ out'.body \in users
                   /\ out'.body.id = out'.id]_vars

\* an update of the second record has been answered 200 with the values sent
C4_Witness ==
    /\ out.op = "PUT"
    /\ out.status = 200
    /\ out.id = 2
    /\ out.body.name = out.name
    /\ out.body.email = out.email
    /\ out.body.created_at < now

\* C5: an update on an id that has no stored record answers 404 with
\* {error: "User not found"} and changes nothing in the store, for every valid
\* input, also one whose email an existing record uses (404, not 409).
C5_UpdateAbsent ==
    /\ [][\A q \in BagToSet(put') : (Updates(q) /\ ~IdStored(q.id)) => users' = users]_vars
    /\ [][(Responds("PUT") /\ ValidInput(out') /\ ~IdStored(out'.id)) =>
             /\ Answers
             /\ out'.status = 404
             /\ out'.body = ErrorBody("User not found")
             /\ users' = users]_vars

\* an update on an absent id, with an email a stored record uses, was answered 404
C5_Witness ==
    /\ out.op = "PUT"
    /\ out.status = 404
    /\ EmailStored(out.email)

\* C6: an update on an existing id answers 409 exactly when the input email
\* belongs to a different existing record, and then the store is unchanged; an
\* update that keeps the record's own email is no collision and answers 200.
C6_UpdateDuplicate ==
    /\ [][(TurnsDown /\ ValidInput(out') /\ IdStored(out'.id)) =>
             /\ Collides(Input(out'))
             /\ out'.status = 409
             /\ out'.body = ErrorBody("Email already exists")
             /\ users' = users]_vars
    /\ [][\A q \in BagToSet(put') : (Updates(q) /\ IdStored(q.id)) => ~Collides(q)]_vars
    /\ [][(Answers /\ IdStored(out'.id)) => out'.status = 200]_vars

\* an update on a stored id has been answered 409
C6_Witness ==
    /\ out.op = "PUT"
    /\ out.status = 409
    /\ IdStored(out.id)

\* C7 (as the spec states it): delete on an existing id removes that record and
\* answers 204; delete on an id with no record answers 404 and leaves the store
\* unchanged.
C7_Delete ==
    [][Responds("DELETE") =>
          IF IdStored(out'.id)
          THEN /\ out'.status = 204
               /\ users' = {r \in users : r.id # out'.id}
               /\ \A r \in users' : r.id # out'.id
          ELSE /\ out'.status = 404
               /\ users' = users]_vars

\* C8: list returns every stored record exactly once, ordered by created_at
\* descending: of two stored records the one created later comes first.
C8_ListOrder ==
    out.op = "LIST" =>
        /\ out.status = 200
        /\ Len(out.body) = Cardinality(users)
        /\ {out.body[i] : i \in 1..Len(out.body)} = users
        /\ \A i, j \in 1..Len(out.body) :
              out.body[i].created_at > out.body[j].created_at => i < j

\* a list of as many records as the store may hold, the first created after the last
C8_Witness ==
    /\ out.op = "LIST"
    /\ Len(out.body) = MaxId
    /\ out.body[1].created_at > out.body[MaxId].created_at
    /\ out.body[1].id > out.body[MaxId].id

\* C9: every stored record's id is a store-assigned integer, unique among the
\* stored records, and never changes: no step yields two records with one id or
\* gives a stored record another id.
C9_IdUniqueImmutable ==
    /\ [](\A r1, r2 \in users : r1 # r2 => r1.id # r2.id)
    /\ [](\A r \in users : r.id \in 1..seq)
    /\ [][\A r2 \in users' :
             \/ \E r \in users : r.id = r2.id /\ r.created_at = r2.created_at
             \/ (r2.id > seq /\ r2.id = seq')]_vars
    /\ [][Cardinality(users') >= Cardinality(users) =>
             \A r \in users : \E r2 \in users' : r2.id = r.id]_vars

\* two records are stored and an update of the first has been answered 200
C9_Witness ==
    /\ Cardinality(users) = 2
    /\ out.op = "PUT"
    /\ out.status = 200
    /\ out.id = 1

\* ---------------------------------------------------------------- BootSpec
\* What database.sqlite may hold when the process starts
StoredRows == [id : 1..MaxId, name : Names, email : Emails, created_at : {0}]
WellFormed(rows) ==
    \A r1, r2 \in rows : (r1.id = r2.id \/ r1.email = r2.email) => r1 = r2
StoredBefore == {rows \in SUBSET StoredRows : WellFormed(rows)}
LargestId(rows) == IF rows = {} THEN 0 ELSE CHOOSE n \in 0..MaxId :
                       (\E r \in rows : r.id = n) /\ (\A r \in rows : r.id <= n)

\* startServer() is called (app.ts:38) and enters connectDb
StartServer ==
    /\ pc = "start"
    /\ pc' = "open"
    /\ UNCHANGED <<db, table, listening, users, seq, now, put, out, usersList>>

\* db = await open({ filename: "./database.sqlite", ... })
OpenDb ==
    /\ pc = "open"
    /\ \/ /\ db' = TRUE
          /\ pc' = "exec"
       \/ /\ db' = db
          /\ pc' = "rejected"
    /\ UNCHANGED <<table, listening, users, seq, now, put, out, usersList>>

\* await db.exec(`CREATE TABLE IF NOT EXISTS users (...)`)
ExecSchema ==
    /\ pc = "exec"
    /\ IF SchemaAccepted
       THEN /\ table' = TRUE
            /\ pc' = "resolved"
       ELSE /\ table' = table
            /\ pc' = "rejected"
    /\ UNCHANGED <<db, listening, users, seq, now, put, out, usersList>>

\* (mutant) app.listen(PORT) is called whether connectDb resolved or not
AfterConnectListens ==
    /\ pc \in {"resolved", "rejected"}
    /\ listening' = TRUE
    /\ pc' = IF pc = "resolved" THEN "listening" ELSE "exited"
    /\ UNCHANGED <<db, table, users, seq, now, put, out, usersList>>

\* startServer after `await connectDb()`: app.listen(PORT), or the catch block's
\* process.exit(1)
AfterConnect ==
    /\ pc \in {"resolved", "rejected"}
    /\ IF pc = "resolved"
       THEN /\ listening' = TRUE
            /\ pc' = "listening"
       ELSE /\ listening' = listening
            /\ pc' = "exited"
    /\ UNCHANGED <<db, table, users, seq, now, put, out, usersList>>

\* a client's request finds no listening socket
Refused ==
    /\ out = NoResponse
    /\ \E op \in {"LIST", "GET", "POST", "PUT", "DELETE"}, id \in IdParams,
          userInput \in Bodies :
          out' = Response(op, id, userInput, 0, ErrorBody("ECONNREFUSED"))
    /\ UNCHANGED <<pc, db, table, listening, users, seq, now, put, usersList>>

\* a client sends a request
Connect ==
    IF listening
    THEN GetUsers \/ GetUser \/ PostUser \/ PutUserRun \/ PutUserGet \/ DeleteUser
    ELSE Refused

BootInit ==
    /\ pc = "start"
    /\ db = FALSE
    /\ listening = FALSE
    /\ table \in BOOLEAN
    /\ users \in (IF table THEN StoredBefore ELSE {{}})
    /\ seq = LargestId(users)
    /\ now = 0
    /\ put = EmptyBag
    /\ out = NoResponse
    /\ usersList = <<>>

BootNext ==
    \/ StartServer
    \/ OpenDb
    \/ ExecSchema
    \/ AfterConnect
    \/ Connect
    \/ Deliver
    \/ Tick

BootSpec == BootInit /\ [][BootNext]_vars

\* a route has run: its response is on its way, or its PUT awaits the re-read
Served == (out.op # "none" /\ out.status # 0) \/ put # EmptyBag

\* C10: no request reaches the persistence service before store initialization
\* has completed: the server accepts requests only after connectDb has resolved,
\* and when connectDb fails the process exits without serving a request.
C10_InitBeforeRequests ==
    /\ listening => (pc = "listening" /\ db /\ table)
    /\ Served => (pc = "listening" /\ db /\ table)
    /\ pc \in {"rejected", "exited"} => (~listening /\ ~Served)

\* connectDb opened the file and failed, the process has exited, and a client's
\* create request found nobody listening
C10_Witness ==
    /\ pc = "exited"
    /\ db
    /\ out.op = "POST"
    /\ out.status = 0

\* ---------------------------------------------------------------- validation
\* C11: a create or update request whose name or email is missing or empty is
\* answered 400 with {error: "Name and email are required"} without a call of the
\* persistence service: the store is unchanged and no UPDATE awaits its re-read,
\* whether or not the id exists or the email is in use.
C11_ValidationFirst ==
    [][((Responds("POST") \/ Responds("PUT")) /\ ~ValidInput(out')) =>
          /\ out'.status = 400
          /\ out'.body = ErrorBody("Name and email are required")
          /\ users' = users
          /\ seq' = seq
          /\ put' = put]_vars

\* an update without a name was answered 400, on a stored id, with an email that
\* another stored record uses
C11_Witness ==
    /\ out.op = "PUT"
    /\ out.status = 400
    /\ Falsy(out.name)
    /\ IdStored(out.id)
    /\ \E r \in users : r.email = out.email /\ r.id # out.id

\* ---------------------------------------------------------------- FaultSpec
\* Spec, and the store failing under the running server: another connection to
\* database.sqlite drops the users table, and every statement on it fails from
\* then on
DropTable ==
    /\ out = NoResponse
    /\ table
    /\ table' = FALSE
    /\ users' = {}
    /\ seq' = 0
    /\ UNCHANGED <<pc, db, listening, now, put, out, usersList>>

FaultNext ==
    \/ GetUsers
    \/ GetUser
    \/ PostUser
    \/ PutUserRun
    \/ PutUserGet
    \/ DeleteUser
    \/ Deliver
    \/ Tick
    \/ DropTable

FaultSpec == Init /\ [][FaultNext]_vars

\* the message each route's catch block answers with
GenericMessage(op) ==
    CASE op = "LIST" -> "Failed to retrieve users"
      [] op = "GET" -> "Failed to retrieve user"
      [] op = "POST" -> "Failed to create user"
      [] op = "PUT" -> "Failed to update user"
      [] op = "DELETE" -> "Failed to delete user"
      [] OTHER -> ""
ErrorMessages == {UniqueFailed, NoSuchTable, NotInitialized, NotAFunction}

\* C12: a store or service call that fails for another reason than a uniqueness
\* violation or an absent record (the table is gone, the service function is
\* missing) is answered 500 with the operation's fixed message; no piece of the
\* failure's own message is in the body, and the request is not tried again: the
\* failing step changes nothing in the store and leaves no call pending.
C12_OtherFailures ==
    /\ [][(/\ out = NoResponse
           /\ out' # NoResponse
           /\ (~table \/ out'.op = "DELETE")
           /\ (out'.op \in {"POST", "PUT"} => ValidInput(out'))) =>
             /\ out'.status = 500
             /\ out'.body = ErrorBody(GenericMessage(out'.op))
             /\ users' = users
             /\ seq' = seq
             /\ \/ put' = put
                \/ \E q \in BagToSet(put) : put' = put (-) SetToBag({q})]_vars
    /\ [](out.status = 500 =>
             /\ out.body = ErrorBody(GenericMessage(out.op))
             /\ \A e \in ErrorMessages : ~Includes(e, out.body.error))

\* the table is gone, an update has been answered 500 and another update, whose
\* write ran before, still awaits its re-read
C12_Witness ==
    /\ ~table
    /\ out.op = "PUT"
    /\ out.status = 500
    /\ put # EmptyBag

\* ---------------------------------------------------------------- initialization
\* C13 (as the spec states it): connectDb run against a store that already holds
\* the users table and records succeeds, and leaves every record (id, name, email,
\* created_at) as it was.
C13_ConnectIdempotent ==
    [][(pc = "exec" /\ pc' # pc /\ table) =>
          /\ pc' = "resolved"
          /\ table'
          /\ users' = users
          /\ seq' = seq]_vars

\* ---------------------------------------------------------------- concurrency
\* C14 (as the spec states it): a delete of an id that runs between an update's
\* write and its re-read removes the record; the update then finds no record and
\* answers 404; no two records share an email throughout.
C14_DeleteDuringUpdate ==
    /\ [][(/\ Responds("DELETE")
           /\ \E q \in BagToSet(put) : q.id = out'.id /\ IdStored(q.id)) =>
             \A r \in users' : r.id # out'.id]_vars
    /\ [][(Answers /\ ~IdStored(out'.id)) =>
             /\ out'.status = 404
             /\ out'.body = ErrorBody("User not found")]_vars
    /\ [](\A r1, r2 \in users : r1.email = r2.email => r1 = r2)

Property(arr, key) == IF key = "length" THEN <<Len(arr)>> ELSE <<>>

\* v == n, loose equality with a number: undefined equals no number
LooseEquals(v, n) == v # <<>> /\ v[1] = n

\* <p>No users found</p>
NoUsersFound == [tag |-> "p", text |-> "No users found"]

\* the div.user-card of a user: name, email, created_at, and the id on its buttons
UserCard(user) ==
    [tag |-> "div.user-card", name |-> user.name, email |-> user.email,
     created_at |-> user.created_at, id |-> user.id]

\* displayUsers(users): what #users-list holds when it returns
displayUsers(list) ==
    IF LooseEquals(Property(list, "lenght"), 0)
    THEN <<NoUsersFound>>
    ELSE [i \in 1..Len(list) |-> UserCard(list[i])]

\* fetchUsers() from `await response.json()` on: displayUsers(users); a body that
\* is no array makes users.forEach throw after the list was emptied, and the catch
\* block alerts
FetchUsers ==
    /\ out.op = "LIST"
    /\ usersList' = IF out.status = 200 THEN displayUsers(out.body) ELSE <<>>
    /\ out' = NoResponse
    /\ UNCHANGED <<pc, db, table, listening, users, seq, now, put>>

\* the client's createUser(user) from `if (!response.ok)` on: it alerts
CreateUserAlert ==
    /\ out.op = "POST"
    /\ out' = NoResponse
    /\ UNCHANGED <<pc, db, table, listening, users, seq, now, put, usersList>>

ClientNext ==
    \/ GetUsers
    \/ PostUser
    \/ FetchUsers
    \/ CreateUserAlert
    \/ Tick

ClientSpec == Init /\ [][ClientNext]_vars

\* C16 (as the spec states it): when the list fetched from GET /api/users is
\* empty, displayUsers leaves the message "No users found" in the users list;
\* when it is not, the users list holds one card per user, in the list's order,
\* and no such message.
C16_DisplayUsers ==
    [][(out.op = "LIST" /\ out.status = 200 /\ out' = NoResponse) =>
          IF out.body = <<>>
          THEN usersList' = <<NoUsersFound>>
          ELSE /\ Len(usersList') = Len(out.body)
               /\ \A i \in 1..Len(out.body) : usersList'[i] = UserCard(out.body[i])]_vars

====
